---- MODULE Spec2Model ----
(***************************************************************************)
(* Model of calculate.py (eps-calculator): the script that stitches the    *)
(* zero-field, clamped-ion and relaxed-ion dipole tables of a Quantum      *)
(* Espresso run into one series, removes polarization-quantum jumps and    *)
(* computes the dielectric constants.                                      *)
(*                                                                         *)
(* A dipole table is a sequence of rows; a row is the 5-tuple              *)
(*   <<step_index, step_duration, electronic, ionic, total>>               *)
(* so numpy column 0 is row[1], column 1 is row[2], column 2 is row[3],    *)
(* column 3 is row[4] and column -1 is row[5].  Dipoles, durations and the *)
(* polarization quantum are integers (fixed-point values); a threshold is  *)
(* carried as twice its value so that pquant/2 stays an integer.           *)
(* A Python name that is unbound or None is the empty sequence <<>>.       *)
(***************************************************************************)
EXTENDS Integers, Sequences, FiniteSets, TLC

VARIABLES
    extend, nosort, clamped_ion,      \* args.extend, args.nosort, bool(args.clamped_ion)
    zero_field, clamped_file, disk,   \* contents of the input files (disk: file name -> table)
    files,                            \* args.relaxed_ion, the list of file names
    pquant,                           \* cell[-1, -1]
    pc, err,                          \* position in the script; stage at which it raised
    p0, p1,                           \* zero-field last row; clamped-ion table
    nread, tables,                    \* files processed so far; the pol array parsed for each
    pols, p2,                         \* dedup dict (insertion-ordered key/row pairs); stitched table
    t8, time,
    atot_uncorrected, ae_uncorrected, ai_uncorrected,
    atot, ae, ai,
    eps_r, eps_inf, printed

vars == <<extend, nosort, clamped_ion, zero_field, clamped_file, disk, files,
          pquant, pc, err, p0, p1, nread, tables, pols, p2, t8, time,
          atot_uncorrected, ae_uncorrected, ai_uncorrected, atot, ae, ai,
          eps_r, eps_inf, printed>>

inputs == <<extend, nosort, clamped_ion, zero_field, clamped_file, disk, pquant>>

(***************************************************************************)
(* Bounds of the input space.                                              *)
(***************************************************************************)
MaxFiles   == 2     \* the relaxed-ion file list holds 1..MaxFiles names
MaxSamples == 2     \* rows over all listed relaxed-ion files
MaxStep    == 1     \* step indices are drawn from {-2, -1} \cup 0..MaxStep
MaxSignal  == 2     \* clamped + relaxed rows in the signal inputs
MaxWrap    == 1     \* wrap counts of a synthetic signal are in -MaxWrap..MaxWrap

\* relaxed-ion file names, ordered as their names sort
Names == {1, 2}
Steps == {-2, -1} \cup (0..MaxStep)

(***************************************************************************)
(* Sequence helpers (numpy / Python builtins used by the script).          *)
(***************************************************************************)
Last(s) == s[Len(s)]

RECURSIVE SumTo(_, _)
SumTo(s, n) == IF n = 0 THEN 0 ELSE SumTo(s, n - 1) + s[n]

\* np.cumsum
cumsum(s) == [k \in 1..Len(s) |-> SumTo(s, k)]

Column(tab, c) == [k \in 1..Len(tab) |-> tab[k][c]]

RECURSIVE InsertSorted(_, _)
InsertSorted(s, x) ==
    IF s = <<>> THEN <<x>>
    ELSE IF x < s[1] THEN <<x>> \o s
    ELSE <<s[1]>> \o InsertSorted(Tail(s), x)

\* list.sort() on the file names
RECURSIVE ListSort(_)
ListSort(s) == IF s = <<>> THEN <<>> ELSE InsertSorted(ListSort(Tail(s)), s[1])

\* parsers.get_dipole(file)[1]: a fresh table with the file's rows
get_dipole(file) == disk[file]

(***************************************************************************)
(* Deduplicate mode: pols[pol[i, 0]] = pol[i] on an insertion-ordered dict *)
(***************************************************************************)
HasKey(d, key) == \E k \in 1..Len(d) : d[k][1] = key

\* DictSet that keeps the first row stored under a key
DictSetFirstWins(d, key, row) ==
    IF HasKey(d, key) THEN d ELSE Append(d, <<key, row>>)

\* pols[key] = row
DictSet(d, key, row) ==
    IF HasKey(d, key)
    THEN [k \in 1..Len(d) |-> IF d[k][1] = key THEN <<key, row>> ELSE d[k]]
    ELSE Append(d, <<key, row>>)

\* for i, p in enumerate(pol): pols[pol[i, 0]] = pol[i]
RECURSIVE MergeRows(_, _, _)
MergeRows(d, pol, n) ==
    IF n = 0 THEN d
    ELSE DictSet(MergeRows(d, pol, n - 1), pol[n][1], pol[n])

MergeFile(d, pol) == MergeRows(d, pol, Len(pol))

\* np.concatenate([pols[step].reshape(1,-1) for step in pols], axis=0)
Materialise(d) == [k \in 1..Len(d) |-> d[k][2]]

(***************************************************************************)
(* Extend mode: pol[:, 0] += p2[-1, 0]                                     *)
(***************************************************************************)
\* ShiftSteps that forgets the running offset
ShiftStepsNone(pol, by) == pol

ShiftSteps(pol, by) ==
    [k \in 1..Len(pol) |-> [pol[k] EXCEPT ![1] = pol[k][1] + by]]

(***************************************************************************)
(* Time axis and referenced dipole series                                  *)
(***************************************************************************)
\* t8 = np.concatenate([np.array([0]), np.cumsum(p1[:, 1])])
T8(clamped) == <<0>> \o cumsum(Column(clamped, 2))

\* T9 that does not continue from the end of the clamped-ion clock
T9NoOffset(relaxed, t8axis) ==
    LET cs == cumsum(Column(relaxed, 2))
    IN  [k \in 1..Len(relaxed) |-> cs[k] + relaxed[1][1] * relaxed[1][2]]

\* t9 = np.cumsum(p2[:, 1]) + p2[0, 0] * p2[0, 1] + t8[-1]
T9(relaxed, t8axis) ==
    LET cs == cumsum(Column(relaxed, 2))
    IN  [k \in 1..Len(relaxed) |-> cs[k] + relaxed[1][1] * relaxed[1][2] + Last(t8axis)]

\* TimeNoClamped without the leading zero
TimeNoClampedNoZero(relaxed) == cumsum(Column(relaxed, 2))

\* time without a clamped-ion segment
TimeNoClamped(relaxed) == <<0>> \o cumsum(Column(relaxed, 2))

Minus(s, ref) == [k \in 1..Len(s) |-> s[k] - ref]

\* AtotUncorrected referenced to the electronic zero-field dipole
AtotUncorrectedWrongRef(zero, clamped, relaxed) ==
    Minus(<<zero[5]>> \o Column(clamped, 5) \o Column(relaxed, 5), zero[3])

\* np.concatenate([np.array([p0[c]]), p1[:, c], p2[:, c]]) - p0[c]
AtotUncorrected(zero, clamped, relaxed) ==
    Minus(<<zero[5]>> \o Column(clamped, 5) \o Column(relaxed, 5), zero[5])

AeUncorrected(zero, clamped, relaxed) ==
    Minus(<<zero[3]>> \o Column(clamped, 3) \o Column(relaxed, 3), zero[3])

AiUncorrected(zero, clamped, relaxed) ==
    Minus(<<zero[4]>> \o Column(clamped, 4) \o Column(relaxed, 4), zero[4])

(***************************************************************************)
(* analysis.correct_jumps (pybec), as specified: a point whose difference  *)
(* from its predecessor exceeds the threshold is moved, with every later   *)
(* point, by round(d / jump_quantum) quanta.                               *)
(***************************************************************************)
Abs(x) == IF x < 0 THEN 0 - x ELSE x

\* round(d / q), q > 0, ties to the even neighbour
Round(d, q) ==
    LET fl == d \div q
        r  == d - fl * q
    IN  IF 2 * r < q THEN fl
        ELSE IF 2 * r > q THEN fl + 1
        ELSE IF fl % 2 = 0 THEN fl ELSE fl + 1

\* number of quanta taken off at point i (threshold2 is twice the threshold)
JumpAt(series, i, q, threshold2) ==
    LET d == series[i] - series[i - 1]
    IN  IF 2 * Abs(d) > threshold2 THEN Round(d, q) ELSE 0

RECURSIVE JumpsTo(_, _, _, _)
JumpsTo(series, n, q, threshold2) ==
    IF n <= 1 THEN 0
    ELSE JumpsTo(series, n - 1, q, threshold2) + JumpAt(series, n, q, threshold2)

correct_jumps(series, q, threshold2) ==
    [i \in 1..Len(series) |-> series[i] - q * JumpsTo(series, i, q, threshold2)]

\* jump_threshold = jump_quantum / 2 when the caller gives none
DefaultThreshold2(q) == q

\* jump_threshold=10 of the electronic call
ElectronicJumpThreshold == 10

\* CorrectTotal called with the fixed threshold of the electronic call
CorrectTotalFixedThreshold(series, q) == correct_jumps(series, q, 2 * ElectronicJumpThreshold)

\* atot = analysis.correct_jumps(atot_uncorrected, jump_quantum=pquant)
CorrectTotal(series, q) == correct_jumps(series, q, DefaultThreshold2(q))

\* ae = analysis.correct_jumps(ae_uncorrected, jump_quantum=pquant, jump_threshold=10)
CorrectElectronic(series, q) == correct_jumps(series, q, 2 * ElectronicJumpThreshold)

\* ai = analysis.correct_jumps(ai_uncorrected, jump_quantum=pquant)
CorrectIonic(series, q) == correct_jumps(series, q, DefaultThreshold2(q))

(***************************************************************************)
(* Inputs.  Three families of input files:                                   *)
(*  - stitching inputs: any step indices; every sample carries a duration  *)
(*    and dipoles that identify the file and row it came from;             *)
(*  - signal inputs: consecutive step indices; the dipoles take levels 0,  *)
(*    3 and pquant above the zero-field reference, so that the series      *)
(*    contains quantum jumps;                                              *)
(*  - degenerate inputs: files that yield no samples.                      *)
(***************************************************************************)
ZeroRow == <<0, 1, 1, 2, 3>>

TaggedRow(f, k, step) ==
    <<step, 1 + ((f + k) % 2), 10 * f + k, 20 * f + k, 30 * f + 2 * k>>

SignalRow(k, ve, vi) == <<k, 1, 1 + ve, 2 + vi, 3 + ve + vi>>

Levels(q) == {0, 3, q}

IonicLevels(q) == {0, q}

PQuants == {4, 24}

FileLists == UNION {[1..n -> Names] : n \in 1..MaxFiles}

Range(s) == {s[k] : k \in 1..Len(s)}

RECURSIVE SumOver(_, _)
SumOver(f, S) ==
    IF S = {} THEN 0
    ELSE LET x == CHOOSE y \in S : TRUE IN f[x] + SumOver(f, S \ {x})

InitState ==
    /\ pc = "zero_field"
    /\ err = "none"
    /\ p0 = <<>>
    /\ p1 = <<>>
    /\ nread = 0
    /\ tables = <<>>
    /\ pols = <<>>
    /\ p2 = <<>>
    /\ t8 = <<>>
    /\ time = <<>>
    /\ atot_uncorrected = <<>>
    /\ ae_uncorrected = <<>>
    /\ ai_uncorrected = <<>>
    /\ atot = <<>>
    /\ ae = <<>>
    /\ ai = <<>>
    /\ eps_r = <<>>
    /\ eps_inf = <<>>
    /\ printed = FALSE

InitStitching ==
    /\ extend \in BOOLEAN
    /\ nosort \in BOOLEAN
    /\ clamped_ion \in BOOLEAN
    /\ pquant = 4
    /\ zero_field = <<ZeroRow>>
    /\ clamped_file = IF clamped_ion THEN <<TaggedRow(0, 1, 1)>> ELSE <<>>
    /\ files \in FileLists
    /\ \E lens \in [Names -> 0..MaxSamples] :
         /\ \A f \in Names : f \notin Range(files) => lens[f] = 0
         /\ SumOver(lens, Names) <= MaxSamples
         /\ \E st \in [{fk \in Names \X (1..MaxSamples) : fk[2] <= lens[fk[1]]} -> Steps] :
              disk = [f \in Names |->
                        [k \in 1..lens[f] |-> TaggedRow(f, k, st[<<f, k>>])]]
    /\ InitState

InitSignal ==
    /\ extend \in BOOLEAN
    /\ nosort = FALSE
    /\ clamped_ion \in BOOLEAN
    /\ pquant \in PQuants
    /\ zero_field = <<ZeroRow>>
    /\ files = <<1>>
    /\ \E nc \in 0..1, nr \in 0..MaxSignal :
         /\ nc + nr <= MaxSignal
         /\ nc = IF clamped_ion THEN 1 ELSE 0
         /\ \E ve \in [1..(nc + nr) -> Levels(pquant)], vi \in [1..(nc + nr) -> IonicLevels(pquant)] :
              /\ clamped_file = [k \in 1..nc |-> SignalRow(k, ve[k], vi[k])]
              /\ disk = [f \in Names |->
                           IF f = 1
                           THEN [k \in 1..nr |-> SignalRow(k, ve[nc + k], vi[nc + k])]
                           ELSE <<>>]
    /\ InitState

InitDegenerate ==
    /\ extend \in BOOLEAN
    /\ nosort \in BOOLEAN
    /\ clamped_ion \in BOOLEAN
    /\ pquant \in PQuants
    /\ zero_field \in {<<>>, <<ZeroRow>>}
    /\ clamped_file = <<>>
    /\ files \in {<<1>>, <<2, 1>>}
    /\ disk \in {[f \in Names |-> <<>>],
                 [f \in Names |-> IF f = 1 THEN <<TaggedRow(1, 1, 1)>> ELSE <<>>]}
    /\ InitState

Init == InitStitching \/ InitSignal \/ InitDegenerate

(***************************************************************************)
(* The script, one action per block.                                       *)
(***************************************************************************)
Raise(stage) == pc' = "error" /\ err' = stage

\* p0 = parsers.get_dipole(args.zero_field)[1]; p0 = p0[-1]
ReadZeroField ==
    /\ pc = "zero_field"
    /\ IF Len(zero_field) = 0
       THEN Raise("zero_field") /\ p0' = p0
       ELSE p0' = Last(zero_field) /\ pc' = "clamped_ion" /\ err' = err
    /\ UNCHANGED <<inputs, files, p1, nread, tables, pols, p2, t8, time,
                   atot_uncorrected, ae_uncorrected, ai_uncorrected,
                   atot, ae, ai, eps_r, eps_inf, printed>>

\* if args.clamped_ion: p1 = parsers.get_dipole(args.clamped_ion)[1]
ReadClampedIon ==
    /\ pc = "clamped_ion"
    /\ p1' = IF clamped_ion THEN clamped_file ELSE p1
    /\ pc' = "sort"
    /\ UNCHANGED <<inputs, files, err, p0, nread, tables, pols, p2, t8, time,
                   atot_uncorrected, ae_uncorrected, ai_uncorrected,
                   atot, ae, ai, eps_r, eps_inf, printed>>

\* files = args.relaxed_ion; if not args.nosort: files.sort()
SortFiles ==
    /\ pc = "sort"
    /\ files' = IF nosort THEN files ELSE ListSort(files)
    /\ pc' = "stitch"
    /\ UNCHANGED <<inputs, err, p0, p1, nread, tables, pols, p2, t8, time,
                   atot_uncorrected, ae_uncorrected, ai_uncorrected,
                   atot, ae, ai, eps_r, eps_inf, printed>>

\* one iteration of the loop of the deduplicate branch
DedupFile ==
    /\ pc = "stitch"
    /\ ~extend
    /\ nread < Len(files)
    /\ LET pol == get_dipole(files[nread + 1])
       IN  /\ pols' = MergeFile(pols, pol)
           /\ tables' = Append(tables, pol)
    /\ nread' = nread + 1
    /\ UNCHANGED <<inputs, files, pc, err, p0, p1, p2, t8, time,
                   atot_uncorrected, ae_uncorrected, ai_uncorrected,
                   atot, ae, ai, eps_r, eps_inf, printed>>

\* p2 = OrderedDict(sorted(pols.items()))
\* p2 = np.concatenate([pols[step].reshape(1,-1) for step in pols], axis=0)
\* The second assignment replaces the first and iterates over pols itself.
DedupMaterialise ==
    /\ pc = "stitch"
    /\ ~extend
    /\ nread = Len(files)
    /\ IF pols = <<>>
       THEN Raise("stitch") /\ p2' = p2
       ELSE p2' = Materialise(pols) /\ pc' = "series" /\ err' = err
    /\ UNCHANGED <<inputs, files, p0, p1, nread, tables, pols, t8, time,
                   atot_uncorrected, ae_uncorrected, ai_uncorrected,
                   atot, ae, ai, eps_r, eps_inf, printed>>

\* one iteration of the loop of the extend branch
ExtendFile ==
    /\ pc = "stitch"
    /\ extend
    /\ nread < Len(files)
    /\ LET pol == get_dipole(files[nread + 1])
       IN  IF Len(pol) = 0
           THEN /\ tables' = Append(tables, pol)
                /\ p2' = p2
           ELSE IF p2 = <<>>
           THEN /\ tables' = Append(tables, pol)
                /\ p2' = pol
           ELSE LET shifted == ShiftSteps(pol, Last(p2)[1])
                IN  /\ tables' = Append(tables, shifted)
                    /\ p2' = p2 \o shifted
    /\ nread' = nread + 1
    /\ pc' = IF nread + 1 = Len(files) THEN "series" ELSE "stitch"
    /\ UNCHANGED <<inputs, files, err, p0, p1, pols, t8, time,
                   atot_uncorrected, ae_uncorrected, ai_uncorrected,
                   atot, ae, ai, eps_r, eps_inf, printed>>

\* the time axis and the three referenced series; p2 is None when every
\* file of the extend branch was empty, and subscripting it raises
BuildSeries ==
    /\ pc = "series"
    /\ IF clamped_ion
       THEN /\ t8' = T8(p1)
            /\ IF p2 = <<>>
               THEN /\ Raise("series")
                    /\ UNCHANGED <<time, atot_uncorrected, ae_uncorrected, ai_uncorrected>>
               ELSE /\ time' = T8(p1) \o T9(p2, T8(p1))
                    /\ atot_uncorrected' = AtotUncorrected(p0, p1, p2)
                    /\ ae_uncorrected' = AeUncorrected(p0, p1, p2)
                    /\ ai_uncorrected' = AiUncorrected(p0, p1, p2)
                    /\ pc' = "correct"
                    /\ err' = err
       ELSE /\ t8' = t8
            /\ IF p2 = <<>>
               THEN /\ Raise("series")
                    /\ UNCHANGED <<time, atot_uncorrected, ae_uncorrected, ai_uncorrected>>
               ELSE /\ time' = TimeNoClamped(p2)
                    /\ atot_uncorrected' = AtotUncorrected(p0, <<>>, p2)
                    /\ ae_uncorrected' = AeUncorrected(p0, <<>>, p2)
                    /\ ai_uncorrected' = AiUncorrected(p0, <<>>, p2)
                    /\ pc' = "correct"
                    /\ err' = err
    /\ UNCHANGED <<inputs, files, p0, p1, nread, tables, pols, p2,
                   atot, ae, ai, eps_r, eps_inf, printed>>

\* the three analysis.correct_jumps calls
CorrectJumps ==
    /\ pc = "correct"
    /\ atot' = CorrectTotal(atot_uncorrected, pquant)
    /\ ae' = CorrectElectronic(ae_uncorrected, pquant)
    /\ ai' = CorrectIonic(ai_uncorrected, pquant)
    /\ pc' = "eps"
    /\ UNCHANGED <<inputs, files, err, p0, p1, nread, tables, pols, p2, t8, time,
                   atot_uncorrected, ae_uncorrected, ai_uncorrected,
                   eps_r, eps_inf, printed>>

\* eps_r = 1 + 4*np.pi * (atot[-1]) / vol / args.efield
\* eps_inf = 1 + 4*np.pi * (p1[-1, -1] - p0[-1]) / vol / args.efield
\* Each permittivity is kept as the one-element tuple of the dipole it is
\* computed from; p1 is unbound without --clamped-ion, and p1[-1, -1]
\* raises on an empty clamped-ion table.
ComputeEps ==
    /\ pc = "eps"
    /\ eps_r' = <<Last(atot)>>
    /\ IF ~clamped_ion \/ Len(p1) = 0
       THEN Raise("eps") /\ eps_inf' = eps_inf
       ELSE eps_inf' = <<Last(p1)[5] - p0[5]>> /\ pc' = "report" /\ err' = err
    /\ UNCHANGED <<inputs, files, p0, p1, nread, tables, pols, p2, t8, time,
                   atot_uncorrected, ae_uncorrected, ai_uncorrected,
                   atot, ae, ai, printed>>

\* the two print calls
Report ==
    /\ pc = "report"
    /\ printed' = TRUE
    /\ pc' = "done"
    /\ UNCHANGED <<inputs, files, err, p0, p1, nread, tables, pols, p2, t8, time,
                   atot_uncorrected, ae_uncorrected, ai_uncorrected,
                   atot, ae, ai, eps_r, eps_inf>>

Next ==
    \/ ReadZeroField
    \/ ReadClampedIon
    \/ SortFiles
    \/ DedupFile
    \/ DedupMaterialise
    \/ ExtendFile
    \/ BuildSeries
    \/ CorrectJumps
    \/ ComputeEps
    \/ Report

Spec == Init /\ [][Next]_vars

(***************************************************************************)
(* Properties                                                              *)
(***************************************************************************)
StepsOf(tab) == {tab[k][1] : k \in 1..Len(tab)}

StrictlyIncreasingSteps(tab) ==
    \A k \in 1..(Len(tab) - 1) : tab[k][1] < tab[k + 1][1]

\* the table each listed file holds on disk, in list order
FileTable(k) == disk[files[k]]

RECURSIVE Processed(_)
\* all samples of the first n listed files, in processing order
Processed(n) == IF n = 0 THEN <<>> ELSE Processed(n - 1) \o FileTable(n)

\* the last processed sample with step index s
LastWith(samples, s) ==
    samples[CHOOSE k \in 1..Len(samples) :
              /\ samples[k][1] = s
              /\ \A j \in (k + 1)..Len(samples) : samples[j][1] # s]

RECURSIVE DedupAll(_, _)
\* the deduplicate branch run over the first n names of a file list
DedupAll(names, n) ==
    IF n = 0 THEN <<>>
    ELSE MergeFile(DedupAll(names, n - 1), get_dipole(names[n]))

DedupStitch(names) == Materialise(DedupAll(names, Len(names)))

AllRelaxedEmpty == \A k \in 1..Len(files) : Len(FileTable(k)) = 0

\* C1: in deduplicate mode the stitched relaxed-ion series p2 lists its
\* samples in strictly ascending step_index order.
C1_DedupAscending ==
    (~extend /\ p2 # <<>>) => StrictlyIncreasingSteps(p2)

\* C2: in deduplicate mode, stitching [F, F] gives exactly the series of
\* stitching [F], and every step_index that occurs among the processed
\* samples occurs exactly once in the stitched series, with the sample
\* that was processed last.
C2_DedupIdempotentLastWins ==
    (~extend /\ p2 # <<>>) =>
        /\ (Len(files) = 2 /\ files[1] = files[2]) => p2 = DedupStitch(<<files[1]>>)
        /\ LET samples == Processed(Len(files))
           IN  \A s \in StepsOf(samples) :
                 /\ Cardinality({k \in 1..Len(p2) : p2[k][1] = s}) = 1
                 /\ \E k \in 1..Len(p2) : p2[k] = LastWith(samples, s)

C2_Witness ==
    /\ ~extend
    /\ pc = "done"
    /\ Len(files) = 2
    /\ files[1] = files[2]
    /\ Len(FileTable(1)) >= 2
    /\ Len(p2) < Len(FileTable(1))

EachFileIncreasing == \A k \in 1..Len(files) : StrictlyIncreasingSteps(FileTable(k))

LaterFilesStartPositive ==
    \A j, k \in 1..Len(files) :
        (j < k /\ Len(FileTable(j)) > 0 /\ Len(FileTable(k)) > 0)
            => FileTable(k)[1][1] > 0

\* C3 as stated: in extend mode, when every file's own step indices are
\* strictly increasing, the stitched step_index is strictly increasing over
\* its whole length, whatever the values of the step indices.
C3_ExtendIncreasingAnySteps ==
    (extend /\ EachFileIncreasing) => StrictlyIncreasingSteps(p2)

\* C3 amended: the same, provided every non-empty file after the first
\* non-empty one starts at a positive step_index.
C3_ExtendIncreasing ==
    (extend /\ EachFileIncreasing /\ LaterFilesStartPositive)
        => StrictlyIncreasingSteps(p2)

C3_Witness ==
    /\ extend
    /\ pc = "done"
    /\ EachFileIncreasing
    /\ LaterFilesStartPositive
    /\ Len(files) = 2
    /\ Len(FileTable(1)) >= 1
    /\ Len(FileTable(2)) >= 1
    /\ Len(p2) = Len(FileTable(1)) + Len(FileTable(2))

\* C4: without a clamped-ion segment the run never gets to report, and no
\* response quantity (eps_r in particular) is computed before it fails.
C4_NoPartialComputation ==
    ~clamped_ion =>
        /\ eps_r = <<>>
        /\ eps_inf = <<>>
        /\ ~printed
        /\ pc \notin {"report", "done"}

\* C5: the first element of each dipole series is 0, before and after
\* jump correction.
C5_ZeroReferenced ==
    /\ atot_uncorrected # <<>> =>
          /\ atot_uncorrected[1] = 0
          /\ ae_uncorrected[1] = 0
          /\ ai_uncorrected[1] = 0
    /\ atot # <<>> =>
          /\ atot[1] = 0
          /\ ae[1] = 0
          /\ ai[1] = 0

C5_Witness ==
    /\ pc = "done"
    /\ atot # <<>>
    /\ p0[3] # p0[5]
    /\ p0[5] # 0
    /\ Len(atot) >= 3

WrapRange == (0 - MaxWrap)..MaxWrap

RECURSIVE WrapsTo(_, _, _, _)
\* the wrap sequences w over the first n points of x for which the signal
\* t = x - q*w moves by less than the threshold between consecutive points
WrapsTo(x, n, q, threshold2) ==
    IF n = 1 THEN {<<w>> : w \in WrapRange}
    ELSE UNION {{Append(w, v) :
                    v \in {u \in WrapRange :
                             2 * Abs((x[n] - q * u) - (x[n - 1] - q * w[n - 1])) < threshold2}} :
                 w \in WrapsTo(x, n - 1, q, threshold2)}

\* corrected is t shifted by the constant q*wrap[0], for every way of
\* reading x as t + q*wrap with t moving by less than the threshold
Unwrapped(x, corrected, q, threshold2) ==
    \A w \in WrapsTo(x, Len(x), q, threshold2) :
        \A i \in 1..Len(x) : corrected[i] = (x[i] - q * w[i]) + q * w[1]

\* C6 as stated: each of the three correct_jumps calls returns the smooth
\* signal shifted by one constant, for the default threshold pquant/2 of
\* the total and ionic calls and for the fixed threshold 10 of the
\* electronic call, whatever pquant is.
C6_UnwrapAnyThreshold ==
    atot # <<>> =>
        /\ Unwrapped(atot_uncorrected, atot, pquant, DefaultThreshold2(pquant))
        /\ Unwrapped(ai_uncorrected, ai, pquant, DefaultThreshold2(pquant))
        /\ Unwrapped(ae_uncorrected, ae, pquant, 2 * ElectronicJumpThreshold)

\* C6 amended: the same for every call whose threshold is at most
\* pquant/2: the total and ionic calls always, the electronic call when
\* 10 <= pquant/2.
C6_UnwrapSmallThreshold ==
    atot # <<>> =>
        /\ Unwrapped(atot_uncorrected, atot, pquant, DefaultThreshold2(pquant))
        /\ Unwrapped(ai_uncorrected, ai, pquant, DefaultThreshold2(pquant))
        /\ (2 * ElectronicJumpThreshold <= pquant)
              => Unwrapped(ae_uncorrected, ae, pquant, 2 * ElectronicJumpThreshold)

C6_Witness ==
    /\ pc = "done"
    /\ 2 * ElectronicJumpThreshold <= pquant
    /\ \E w \in WrapsTo(ae_uncorrected, Len(ae_uncorrected), pquant, 2 * ElectronicJumpThreshold) :
          w[1] # w[Len(w)]
    /\ \E w \in WrapsTo(atot_uncorrected, Len(atot_uncorrected), pquant, DefaultThreshold2(pquant)) :
          w[1] # w[Len(w)]
    /\ atot # atot_uncorrected
    /\ ae # ae_uncorrected

\* C7: when the zero-field file or every relaxed-ion file yields no
\* samples the run fails while reading or stitching, before any time axis,
\* dipole series or permittivity is computed; empty files mixed with
\* non-empty ones cause no failure.
C7_EmptyInputFailsAtStitching ==
    /\ (Len(zero_field) = 0 \/ AllRelaxedEmpty) =>
          /\ pc \notin {"correct", "eps", "report", "done"}
          /\ pc = "error" => err \in {"zero_field", "stitch"}
          /\ t8 = <<>>
          /\ time = <<>>
          /\ atot_uncorrected = <<>>
          /\ eps_r = <<>>
    /\ (Len(zero_field) > 0 /\ ~AllRelaxedEmpty) =>
          err \notin {"zero_field", "stitch", "series"}

NonDecreasing(s) == \A k \in 1..(Len(s) - 1) : s[k] <= s[k + 1]

\* C8 as stated: the time axis starts at 0 and is non-decreasing, for every
\* integer value of the relaxed series' first step_index.
C8_TimeMonotoneAnyStep ==
    time # <<>> => (time[1] = 0 /\ NonDecreasing(time))

\* C8 amended: the same, provided that, when a clamped-ion segment is
\* present, the relaxed series' first step_index is at least -1.
C8_TimeMonotone ==
    (time # <<>> /\ (clamped_ion => p2[1][1] >= -1))
        => (time[1] = 0 /\ NonDecreasing(time))

C8_Witness ==
    /\ pc = "done"
    /\ clamped_ion
    /\ Len(p1) >= 1
    /\ p2[1][1] = -1
    /\ Len(p2) >= 2
    /\ Len(time) = 1 + Len(p1) + Len(p2)

\* C9: every table parsed from an input file still holds the values that
\* were read from the file.
C9_InputsNotMutated ==
    \A k \in 1..Len(tables) : tables[k] = FileTable(k)

\* C10: time and the three dipole series have the same length, 1 + clamped
\* samples + stitched relaxed samples; the stitched relaxed series holds
\* every sample of every file in extend mode and one sample per distinct
\* step_index in deduplicate mode.
C10_SeriesShape ==
    time # <<>> =>
        LET n == 1 + (IF clamped_ion THEN Len(clamped_file) ELSE 0) + Len(p2)
        IN  /\ Len(time) = n
            /\ Len(atot_uncorrected) = n
            /\ Len(ae_uncorrected) = n
            /\ Len(ai_uncorrected) = n
            /\ extend => Len(p2) = Len(Processed(Len(files)))
            /\ ~extend => Len(p2) = Cardinality(StepsOf(Processed(Len(files))))

C10_Witness ==
    /\ pc = "done"
    /\ extend
    /\ Len(files) = 2
    /\ Len(p2) >= 2
    /\ \E j, k \in 1..Len(p2) : j < k /\ p2[j][1] = p2[k][1]

====
